---------------------------- MODULE Spec2Model ----------------------------
(***************************************************************************)
(* Hybrid risk decision engine (Analizador), inference adapter (Predictor) *)
(* and feedback-driven trainer (ModeloAdaptativo) of clima_alerta, as a    *)
(* state machine over the SQLite store, the model artifact file and the    *)
(* Telegram chat.                                                          *)
(*                                                                         *)
(* Numbers: temperatures, humidity and rain are small integers; a          *)
(* probability is an integer number of hundredths (0.75 is 75).  Python's  *)
(* None / SQL NULL / a missing dictionary key is NULL.  Row ids are the    *)
(* positions in the table (AUTOINCREMENT, rows are never deleted).         *)
(* Fields that no decision reads (timestamp, clima, viento_kmh, and the    *)
(* alert's descripcion) are left out of the rows.                          *)
(***************************************************************************)
EXTENDS Integers, Sequences, FiniteSets, TLC

\* ------------------------------------------------------------------ bounds
MaxValor == 2
MaxCiclos == 2
MaxFeedback == 1
MaxReentrenos == 1
MaxFilas == 3
MaxDias == 3

\* ------------------------------------------------------- program constants
NULL == -1
UmbralIaDefecto == 75
MinimoDatos == 20
HorizontePronostico == 2

Valores == 0..MaxValor
ValoresONull == Valores \cup {NULL}
Probabilidades == (UmbralIaDefecto - 1)..(UmbralIaDefecto + 2)

\* ------------------------------------------------------------------ inputs
\* A reading as Colector.obtener_datos_actuales returns it.
TodasLecturas ==
    [temperatura : ValoresONull, humedad : ValoresONull, lluvia : ValoresONull]

SinDatos == [temperatura |-> NULL, humedad |-> NULL, lluvia |-> NULL]

\* config.get('umbrales', {}): a snapshot with its four limits, with or
\* without umbral_ia_probabilidad, or the empty dictionary.
SinUmbrales ==
    [limite_temp_max |-> NULL, limite_temp_min |-> NULL, limite_humedad |-> NULL,
     limite_lluvia_mm |-> NULL, umbral_ia_probabilidad |-> NULL]

TodosUmbrales ==
    [limite_temp_max : Valores, limite_temp_min : Valores, limite_humedad : Valores,
     limite_lluvia_mm : Valores,
     umbral_ia_probabilidad : {NULL, UmbralIaDefecto + 1}]
    \cup {SinUmbrales}

\* The inputs of the scheduled system: one snapshot, and the readings that
\* fall on each side of each branch of analizar.
UmbralesSistema ==
    {[limite_temp_max |-> MaxValor, limite_temp_min |-> 0, limite_humedad |-> MaxValor,
      limite_lluvia_mm |-> MaxValor, umbral_ia_probabilidad |-> NULL]}

LecturasSistema ==
    {[temperatura |-> 1, humedad |-> 0, lluvia |-> 0],
     [temperatura |-> MaxValor, humedad |-> 0, lluvia |-> 0],
     [temperatura |-> NULL, humedad |-> 0, lluvia |-> MaxValor]}

VARIABLES
    historico,   \* table historico: Seq of [temperatura, humedad, lluvia]
    alertas,     \* table alertas_emitidas: Seq of [tipo_alerta, clima_id]
    feedback,    \* table feedback_usuario: Seq of [alerta_id, feedback]
    artefacto,   \* modelo_riesgo.pkl: [estado, version]
    ciclo,       \* per running instance of tarea_ciclo_principal: its locals
    entrenador,  \* tarea_reentrenamiento_modelo: its locals
    pronostico,  \* tarea_analisis_pronostico: its locals
    pasos        \* how many cycles, callbacks and retrains have started

vars == <<historico, alertas, feedback, artefacto, ciclo, entrenador, pronostico, pasos>>

\* ----------------------------------------------------------- Analizador
\* A slip of lines 27-32: the upper temperature bound exclusive.
EvalUmbralEstricto(d, u) ==
    IF d.temperatura = NULL \/ u.limite_temp_max = NULL
    THEN [exc |-> TRUE, val |-> FALSE]
    ELSE IF d.temperatura > u.limite_temp_max
    THEN [exc |-> FALSE, val |-> TRUE]
    ELSE IF u.limite_temp_min = NULL
    THEN [exc |-> TRUE, val |-> FALSE]
    ELSE IF d.temperatura <= u.limite_temp_min
    THEN [exc |-> FALSE, val |-> TRUE]
    ELSE IF d.humedad = NULL \/ u.limite_humedad = NULL
    THEN [exc |-> TRUE, val |-> FALSE]
    ELSE IF d.humedad >= u.limite_humedad
    THEN [exc |-> FALSE, val |-> TRUE]
    ELSE IF d.lluvia = NULL \/ u.limite_lluvia_mm = NULL
    THEN [exc |-> TRUE, val |-> FALSE]
    ELSE [exc |-> FALSE, val |-> d.lluvia >= u.limite_lluvia_mm]

\* Lines 27-32: a >= b and a <= b raise TypeError on None, the subscript
\* raises KeyError on a missing key; `or` stops at the first true operand.
EvalUmbral(d, u) ==
    IF d.temperatura = NULL \/ u.limite_temp_max = NULL
    THEN [exc |-> TRUE, val |-> FALSE]
    ELSE IF d.temperatura >= u.limite_temp_max
    THEN [exc |-> FALSE, val |-> TRUE]
    ELSE IF u.limite_temp_min = NULL
    THEN [exc |-> TRUE, val |-> FALSE]
    ELSE IF d.temperatura <= u.limite_temp_min
    THEN [exc |-> FALSE, val |-> TRUE]
    ELSE IF d.humedad = NULL \/ u.limite_humedad = NULL
    THEN [exc |-> TRUE, val |-> FALSE]
    ELSE IF d.humedad >= u.limite_humedad
    THEN [exc |-> FALSE, val |-> TRUE]
    ELSE IF d.lluvia = NULL \/ u.limite_lluvia_mm = NULL
    THEN [exc |-> TRUE, val |-> FALSE]
    ELSE [exc |-> FALSE, val |-> d.lluvia >= u.limite_lluvia_mm]

\* Predictor.predecir: None without a model; None when the classifier raises
\* (lines 50-52); else the probability of class 1, whatever the opaque
\* classifier answers.  A None feature reaches the classifier as NaN, which
\* the forest rejects or accepts depending on the library's version, so
\* every reading has both outcomes.
Predecir(modelo, d) ==
    IF modelo = NULL THEN {NULL}
    ELSE Probabilidades \cup {NULL}

\* Line 45: self.umbrales.get('umbral_ia_probabilidad', 0.75)
UmbralIa(u) ==
    IF u.umbral_ia_probabilidad = NULL THEN UmbralIaDefecto
    ELSE u.umbral_ia_probabilidad

\* A slip of line 46: the probability threshold exclusive.
RiesgoIaEstricto(p, u) == p > UmbralIa(u)

\* Line 46
RiesgoIa(p, u) == p >= UmbralIa(u)

\* A slip of line 43: a prediction that is not available counted as a risk.
RutaModeloAlertaSinPrediccion(res, u) ==
    IF res # NULL THEN RiesgoIa(res, u) ELSE TRUE

\* Lines 36 and 43-46: riesgo_ia stays False unless predecir returned a
\* probability.
RutaModelo(res, u) ==
    IF res # NULL THEN RiesgoIa(res, u) ELSE FALSE

\* A slip of line 49: the two evaluations joined by `and`.
HayAlertaAmbos(riesgo_umbral, riesgo_ia) == riesgo_umbral /\ riesgo_ia

\* A slip of line 49: the branch taken whatever the two evaluations say.
HayAlertaSiempre(riesgo_umbral, riesgo_ia) == TRUE

\* Line 49
HayAlerta(riesgo_umbral, riesgo_ia) == riesgo_umbral \/ riesgo_ia

\* A slip of line 60: the model's label whenever the model fired.
TipoAlertaPrioridadIa(riesgo_umbral, riesgo_ia) ==
    IF riesgo_ia THEN "riesgo_ia" ELSE "riesgo_umbral"

\* Lines 60-61
TipoAlerta(riesgo_umbral, riesgo_ia) ==
    IF riesgo_ia /\ ~riesgo_umbral THEN "riesgo_ia" ELSE "riesgo_umbral"

\* A slip of line 58: the Reading insert tried again when it returns None.
TrasInsertarClimaReintenta(clima_id) ==
    IF clima_id # NULL THEN "insertar_alerta" ELSE "insertar_clima"

\* A slip of line 58: the Alert inserted without looking at clima_id.
TrasInsertarClimaSinComprobar(clima_id) == "insertar_alerta"

\* Line 58: if clima_id
TrasInsertarClima(clima_id) ==
    IF clima_id # NULL THEN "insertar_alerta" ELSE "fin"

\* Line 63: if alerta_id
TrasInsertarAlerta(alerta_id) ==
    IF alerta_id # NULL THEN "enviar" ELSE "fin"

\* A slip of lines 69-71: the handler logs and does not call send_error.
ManejadorSinReporte(c) ==
    [c EXCEPT !.pc = "fin", !.capturas = @ \cup {"analizar"}]

\* Lines 69-71: the handler of analizar calls send_error.
ManejadorAnalizar(c) ==
    [c EXCEPT !.pc = "fin", !.capturas = @ \cup {"analizar"}, !.reporto = TRUE]

\* The locals of one run of tarea_ciclo_principal.  visto is the file as
\* cargar_modelo found it; capturas names the handlers that caught an
\* exception; reporto says send_error was called; ins_clima, ins_alerta and
\* envios count the calls of the two inserts and of enviar_alerta_general.
CicloInactivo ==
    [pc |-> "inactivo", umbrales |-> SinUmbrales, modelo |-> NULL, datos |-> SinDatos,
     riesgo_umbral |-> FALSE, riesgo_ia |-> FALSE, prob |-> 0,
     capturas |-> {}, reporto |-> FALSE,
     clima_id |-> NULL, alerta_id |-> NULL, etiqueta |-> NULL, entregado |-> FALSE,
     ins_clima |-> 0, ins_alerta |-> 0, envios |-> 0,
     visto |-> [estado |-> "sin_leer", version |-> 0]]

\* Lines 25-50 and 66-71 of analizar: both evaluations and the decision.
Evaluar(c) ==
    /\ ciclo[c].pc = "analizar"
    /\ LET yo == ciclo[c]
           ru == EvalUmbral(yo.datos, yo.umbrales)
       IN IF ru.exc
          THEN ciclo' = [ciclo EXCEPT ![c] = ManejadorAnalizar(yo)]
          ELSE \E res \in (IF yo.modelo # NULL THEN Predecir(yo.modelo, yo.datos)
                           ELSE {NULL}) :
                    LET p   == IF res # NULL THEN res ELSE 0
                        ria == RutaModelo(res, yo.umbrales)
                        cap == IF yo.modelo # NULL /\ res = NULL
                               THEN {"predecir"} ELSE {}
                    IN ciclo' = [ciclo EXCEPT ![c] =
                          [yo EXCEPT !.riesgo_umbral = ru.val, !.riesgo_ia = ria,
                                     !.prob = p, !.capturas = @ \cup cap,
                                     !.pc = IF HayAlerta(ru.val, ria)
                                            THEN "insertar_clima" ELSE "fin"]]
    /\ UNCHANGED <<historico, alertas, feedback, artefacto, entrenador, pasos, pronostico>>

\* Lines 53-58, DBManager.insert_historico_clima: the row id, or None when
\* sqlite raises (caught in _execute_write_query).
InsertarClima(c) ==
    /\ ciclo[c].pc = "insertar_clima"
    /\ \E ok \in BOOLEAN :
         LET yo == ciclo[c]
             id == IF ok THEN Len(historico) + 1 ELSE NULL
         IN /\ historico' = IF ok THEN Append(historico, yo.datos) ELSE historico
            /\ ciclo' = [ciclo EXCEPT ![c] =
                  [yo EXCEPT !.clima_id = id, !.ins_clima = @ + 1,
                             !.capturas = IF ok THEN @ ELSE @ \cup {"db"},
                             !.pc = TrasInsertarClima(id)]]
    /\ UNCHANGED <<alertas, feedback, artefacto, entrenador, pasos, pronostico>>

\* Lines 60-63, DBManager.insert_alerta_emitida.
InsertarAlerta(c) ==
    /\ ciclo[c].pc = "insertar_alerta"
    /\ \E ok \in BOOLEAN :
         LET yo == ciclo[c]
             id == IF ok THEN Len(alertas) + 1 ELSE NULL
             fila == [tipo_alerta |-> TipoAlerta(yo.riesgo_umbral, yo.riesgo_ia),
                      clima_id |-> yo.clima_id]
         IN /\ alertas' = IF ok THEN Append(alertas, fila) ELSE alertas
            /\ ciclo' = [ciclo EXCEPT ![c] =
                  [yo EXCEPT !.alerta_id = id, !.ins_alerta = @ + 1,
                             !.capturas = IF ok THEN @ ELSE @ \cup {"db"},
                             !.pc = TrasInsertarAlerta(id)]]
    /\ UNCHANGED <<historico, feedback, artefacto, entrenador, pasos, pronostico>>

\* Line 64, Notifier.enviar_alerta_general: the message, its two feedback
\* buttons tagged with the alert id, reaches the chat; or requests raises
\* and send_message returns False.
Enviar(c) ==
    /\ ciclo[c].pc = "enviar"
    /\ \E ok \in BOOLEAN :
         LET yo == ciclo[c]
         IN ciclo' = [ciclo EXCEPT ![c] =
                  [yo EXCEPT !.etiqueta = yo.alerta_id, !.envios = @ + 1,
                             !.entregado = ok,
                             !.capturas = IF ok THEN @ ELSE @ \cup {"notifier"},
                             !.pc = "fin"]]
    /\ UNCHANGED <<historico, alertas, feedback, artefacto, entrenador, pasos, pronostico>>

\* ------------------------------------------------------------ one analysis
\* The locals of one run of tarea_reentrenamiento_modelo.  ajustado says
\* fit returned, guardado says joblib.dump returned, reporto says send_error
\* was called.
EntrenadorInactivo ==
    [pc |-> "inactivo", nulo |-> TRUE, X |-> <<>>, y |-> <<>>, capturas |-> {},
     ajustado |-> FALSE, guardado |-> FALSE, reporto |-> FALSE]

\* The locals of one run of tarea_analisis_pronostico: the forecast, the
\* limit of the snapshot, the entries looked at, the positions for which
\* enviar_alerta_pronostico was called.
PronosticoInactivo ==
    [pc |-> "inactivo", dias |-> <<>>, limite |-> NULL, i |-> 0,
     revisados |-> {}, avisos |-> {}, capturas |-> {}]

InitAnalizar ==
    /\ historico = <<>>
    /\ alertas = <<>>
    /\ feedback = <<>>
    /\ \E m \in {NULL, 1} :
         /\ artefacto = IF m = NULL THEN [estado |-> "ausente", version |-> 0]
                        ELSE [estado |-> "completo", version |-> m]
         /\ \E u \in TodosUmbrales, d \in TodasLecturas :
              ciclo = [c \in {1} |->
                         [CicloInactivo EXCEPT !.pc = "analizar", !.umbrales = u,
                                               !.visto = artefacto,
                                               !.modelo = m, !.datos = d]]
    /\ entrenador = EntrenadorInactivo
    /\ pronostico = PronosticoInactivo
    /\ pasos = [ciclos |-> 1, feedbacks |-> 0, reentrenos |-> 0]

NextAnalizar ==
    \/ \E c \in DOMAIN ciclo : Evaluar(c)
    \/ \E c \in DOMAIN ciclo : InsertarClima(c)
    \/ \E c \in DOMAIN ciclo : InsertarAlerta(c)
    \/ \E c \in DOMAIN ciclo : Enviar(c)

SpecAnalizar == InitAnalizar /\ [][NextAnalizar]_vars

\* ------------------------------------------------------- ModeloAdaptativo
\* A slip of the SELECT: one result row per alert, its latest answer.
RECURSIVE RegistrosPorAlerta(_, _, _)
RegistrosPorAlerta(fb, al, hi) ==
    IF fb = <<>> THEN <<>>
    ELSE LET f == Head(fb)
             une == /\ f.alerta_id \in 1..Len(al)
                    /\ al[f.alerta_id].clima_id \in 1..Len(hi)
             h == hi[al[f.alerta_id].clima_id]
             repetida == \E i \in 1..Len(Tail(fb)) :
                            Tail(fb)[i].alerta_id = f.alerta_id
         IN (IF une /\ h.temperatura # NULL /\ f.feedback \in {"bien", "mal"}
                /\ ~repetida
             THEN <<[temp |-> h.temperatura, hum |-> h.humedad,
                     lluvia |-> h.lluvia, feedback |-> f.feedback]>>
             ELSE <<>>)
            \o RegistrosPorAlerta(Tail(fb), al, hi)

\* The SELECT of _cargar_datos_entrenamiento: feedback_usuario JOIN
\* alertas_emitidas JOIN historico, WHERE h.temperatura IS NOT NULL AND
\* f.feedback IN ('bien', 'mal').  One result row per feedback row that joins.
RECURSIVE Registros(_, _, _)
Registros(fb, al, hi) ==
    IF fb = <<>> THEN <<>>
    ELSE LET f == Head(fb)
             une == /\ f.alerta_id \in 1..Len(al)
                    /\ al[f.alerta_id].clima_id \in 1..Len(hi)
             h == hi[al[f.alerta_id].clima_id]
         IN (IF une /\ h.temperatura # NULL /\ f.feedback \in {"bien", "mal"}
             THEN <<[temp |-> h.temperatura, hum |-> h.humedad,
                     lluvia |-> h.lluvia, feedback |-> f.feedback]>>
             ELSE <<>>)
            \o Registros(Tail(fb), al, hi)

\* Line 51: 'mal' -> 1, anything else -> 0
Etiqueta(fb) == IF fb = "mal" THEN 1 ELSE 0

\* A slip of line 47: only the temperature looked at.
FilaValidaSoloTemperatura(r) == r.temp # NULL

\* Line 47: all(v is not None for v in [temp, hum, lluvia])
FilaValida(r) == r.temp # NULL /\ r.hum # NULL /\ r.lluvia # NULL

\* Lines 43-51: the loop that builds X and y.
RECURSIVE ConstruirXy(_)
ConstruirXy(regs) ==
    IF regs = <<>> THEN [X |-> <<>>, y |-> <<>>]
    ELSE LET r == Head(regs)
             resto == ConstruirXy(Tail(regs))
         IN IF FilaValida(r)
            THEN [X |-> <<<<r.temp, r.hum, r.lluvia>>>> \o resto.X,
                  y |-> <<Etiqueta(r.feedback)>> \o resto.y]
            ELSE resto

\* _cargar_datos_entrenamiento: (None, None) when the query fails or returns
\* no row, else (X, y).
CargarDatosEntrenamiento(consulta_ok) ==
    LET regs == IF consulta_ok THEN Registros(feedback, alertas, historico) ELSE <<>>
    IN IF regs = <<>> THEN [nulo |-> TRUE, X |-> <<>>, y |-> <<>>]
       ELSE [nulo |-> FALSE] @@ ConstruirXy(regs)

\* A slip of line 65: the gate one row too low.
DatosInsuficientesMenosUno(datos) == datos.nulo \/ Len(datos.X) < MinimoDatos - 1

\* Line 65: if X is None or len(X) < 20: return
DatosInsuficientes(datos) == datos.nulo \/ Len(datos.X) < MinimoDatos

Cuenta(y, clase) == Cardinality({i \in 1..Len(y) : y[i] = clase})

MenorClase(y) ==
    IF Cuenta(y, 0) <= Cuenta(y, 1) THEN Cuenta(y, 0) ELSE Cuenta(y, 1)

\* Lines 70-72: train_test_split(..., stratify=y) raises ValueError when a
\* class of y has a single member.
DivisionFalla(y) == MenorClase(y) = 1

\* Lines 84-85: classification_report with two target_names raises
\* ValueError when y_test and y_pred hold one class only: always when y has
\* one class, and, when the smaller class has fewer than four members,
\* whenever the seeded split leaves none of them in the test quarter.
ReporteFalla(y) ==
    IF MenorClase(y) = 0 THEN {TRUE}
    ELSE IF MenorClase(y) < 4 THEN {TRUE, FALSE}
    ELSE {FALSE}

\* tarea_reentrenamiento_modelo up to line 67 of entrenar_y_guardar: load
\* the training rows and pass or stop at the size gate.
ReentrenarCargar ==
    /\ entrenador.pc \in {"inactivo", "fin"}
    /\ pasos.reentrenos < MaxReentrenos
    /\ pasos' = [pasos EXCEPT !.reentrenos = @ + 1]
    /\ \E consulta_ok \in BOOLEAN :
         LET datos == CargarDatosEntrenamiento(consulta_ok)
         IN entrenador' =
              [pc |-> IF DatosInsuficientes(datos) THEN "fin" ELSE "ajustar",
               nulo |-> datos.nulo, X |-> datos.X, y |-> datos.y,
               capturas |-> IF consulta_ok THEN {} ELSE {"db"},
               ajustado |-> FALSE, guardado |-> FALSE, reporto |-> FALSE]
    /\ UNCHANGED <<historico, alertas, feedback, artefacto, ciclo, pronostico>>

\* Lines 69-90: split, fit, predict, report.  An exception of the split or
\* of the report leaves entrenar_y_guardar and is caught by the job
\* (main.py line 75).
ReentrenarAjustar ==
    /\ entrenador.pc = "ajustar"
    /\ \E falla \in (IF DivisionFalla(entrenador.y) THEN {TRUE}
                     ELSE ReporteFalla(entrenador.y)) :
         entrenador' =
           [entrenador EXCEPT !.pc = IF falla THEN "fin" ELSE "guardar",
                              !.ajustado = ~DivisionFalla(entrenador.y),
                              !.capturas = IF falla THEN @ \cup {"tarea"} ELSE @]
    /\ UNCHANGED <<historico, alertas, feedback, artefacto, ciclo, pasos, pronostico>>

\* Line 94, joblib.dump opens modelo_riesgo.pkl for writing: the file is
\* truncated; or the open raises and line 96 catches it.
ReentrenarAbrir ==
    /\ entrenador.pc = "guardar"
    /\ \E ok \in BOOLEAN :
         /\ artefacto' = IF ok THEN [artefacto EXCEPT !.estado = "parcial"]
                         ELSE artefacto
         /\ entrenador' =
              [entrenador EXCEPT !.pc = IF ok THEN "escribir" ELSE "fin",
                                 !.capturas = IF ok THEN @
                                              ELSE @ \cup {"entrenar_y_guardar"}]
    /\ UNCHANGED <<historico, alertas, feedback, ciclo, pasos, pronostico>>

\* A slip of lines 93-94: the classifier is a module-level object that the
\* save also swaps into the Predictors of the cycles in flight.
ReentrenarEscribirEnVivo ==
    /\ entrenador.pc = "escribir"
    /\ artefacto' = [estado |-> "completo", version |-> artefacto.version + 1]
    /\ entrenador' = [entrenador EXCEPT !.pc = "fin", !.guardado = TRUE]
    /\ ciclo' = [c \in DOMAIN ciclo |->
                   IF ciclo[c].pc \in {"analizar", "insertar_clima",
                                       "insertar_alerta", "enviar"}
                   THEN [ciclo[c] EXCEPT !.modelo = artefacto.version + 1]
                   ELSE ciclo[c]]
    /\ UNCHANGED <<historico, alertas, feedback, pasos, pronostico>>

\* Line 94, joblib.dump writes and closes the file; or the write raises
\* half way and the truncated file stays.
ReentrenarEscribir ==
    /\ entrenador.pc = "escribir"
    /\ \E ok \in BOOLEAN :
         /\ artefacto' = IF ok THEN [estado |-> "completo",
                                     version |-> artefacto.version + 1]
                         ELSE artefacto
         /\ entrenador' =
              [entrenador EXCEPT !.pc = "fin", !.guardado = ok,
                                 !.capturas = IF ok THEN @
                                              ELSE @ \cup {"entrenar_y_guardar"}]
    /\ UNCHANGED <<historico, alertas, feedback, ciclo, pasos, pronostico>>

\* ModeloAdaptativo.cargar_modelo: the classifier of a complete file, None
\* when the file is missing (FileNotFoundError) or cannot be read.
CargarModelo(art) == IF art.estado = "completo" THEN art.version ELSE NULL

\* ---------------------------------------------------------------- main.py
\* tarea_ciclo_principal, lines 22-38: configuration, DBManager, Notifier,
\* Colector, cargar_modelo, Predictor, Analizador, obtener_datos_actuales.
\* An exception of the set-up is caught at line 41; the collector returns
\* None when the API fails.
Iniciar(c) ==
    /\ ciclo[c].pc \in {"inactivo", "fin"}
    /\ pasos.ciclos < MaxCiclos
    /\ pasos' = [pasos EXCEPT !.ciclos = @ + 1]
    /\ \E arranque \in {"excepcion", "sin_datos", "datos"} :
         IF arranque = "excepcion"
         THEN ciclo' = [ciclo EXCEPT ![c] =
                  [CicloInactivo EXCEPT !.pc = "fin", !.capturas = {"ciclo"}]]
         ELSE \E u \in UmbralesSistema :
                LET base == [CicloInactivo EXCEPT !.umbrales = u, !.visto = artefacto,
                                                  !.modelo = CargarModelo(artefacto)]
                IN IF arranque = "sin_datos"
                   THEN ciclo' = [ciclo EXCEPT ![c] =
                            [base EXCEPT !.pc = "fin", !.capturas = {"colector"}]]
                   ELSE \E d \in LecturasSistema :
                          ciclo' = [ciclo EXCEPT ![c] =
                            [base EXCEPT !.pc = "analizar", !.datos = d]]
    /\ UNCHANGED <<historico, alertas, feedback, artefacto, entrenador, pronostico>>

\* ------------------------------------------------------------ clima_bot.py
\* The callback data the handler may receive, "feedback:<id>:<opinion>": the
\* id of the newest alert, or an id that no alert has (data of a client that
\* does not echo a button, or of a message that outlived the database file);
\* the opinion of a button, or other text.
IdsCallback == {Len(alertas), Len(alertas) + 1} \ {0}

Opiniones == {"bien", "mal", "otro"}

\* feedback_handler: split the data, int() the id, insert the row (or sqlite
\* raises inside _execute_write_query).
FeedbackHandler ==
    /\ pasos.feedbacks < MaxFeedback
    /\ pasos' = [pasos EXCEPT !.feedbacks = @ + 1]
    /\ \E alerta_id \in IdsCallback, opinion \in Opiniones,
          ok \in BOOLEAN :
         feedback' = IF ok
                     THEN Append(feedback, [alerta_id |-> alerta_id,
                                            feedback |-> opinion])
                     ELSE feedback
    /\ UNCHANGED <<historico, alertas, artefacto, ciclo, entrenador, pronostico>>

\* ------------------------------------------------------------- the system
\* The store the service starts with: empty, or the rows of earlier runs,
\* one answered threshold alert per reading.
LecturaPrevia == [temperatura |-> MaxValor, humedad |-> 0, lluvia |-> 0]

AlertaPrevia(i) ==
    [tipo_alerta |-> "riesgo_umbral", clima_id |-> i]

FeedbackPrevio(i, patron) ==
    [alerta_id |-> i,
     feedback |-> IF patron = "alterna" /\ i % 2 = 0 THEN "mal" ELSE "bien"]

Previos == {0, MinimoDatos - 1}

Init ==
    /\ \E n \in Previos, patron \in {"alterna", "bien"} :
         /\ n = 0 => patron = "bien"
         /\ historico = [i \in 1..n |-> LecturaPrevia]
         /\ alertas = [i \in 1..n |-> AlertaPrevia(i)]
         /\ feedback = [i \in 1..n |-> FeedbackPrevio(i, patron)]
    /\ artefacto \in {[estado |-> "ausente", version |-> 0],
                      [estado |-> "completo", version |-> 1]}
    /\ ciclo = [c \in {1} |-> CicloInactivo]
    /\ entrenador = EntrenadorInactivo
    /\ pronostico = PronosticoInactivo
    /\ pasos = [ciclos |-> 0, feedbacks |-> 0, reentrenos |-> 0]

Next ==
    \/ \E c \in DOMAIN ciclo : Iniciar(c)
    \/ \E c \in DOMAIN ciclo : Evaluar(c)
    \/ \E c \in DOMAIN ciclo : InsertarClima(c)
    \/ \E c \in DOMAIN ciclo : InsertarAlerta(c)
    \/ \E c \in DOMAIN ciclo : Enviar(c)
    \/ FeedbackHandler
    \/ ReentrenarCargar
    \/ ReentrenarAjustar
    \/ ReentrenarAbrir
    \/ ReentrenarEscribir

Spec == Init /\ [][Next]_vars

\* ------------------------------------------------- the trainer's data load
\* Stores for _cargar_datos_entrenamiento alone: two readings, the second
\* with any of its features missing, two alerts, and up to MaxFilas feedback
\* rows of any opinion, for an alert of the table or for none.
LecturasDatos ==
    [temperatura : {NULL, MaxValor}, humedad : {NULL, 0}, lluvia : {NULL, 0}]

InitDatos ==
    /\ historico \in {<<LecturaPrevia, d>> : d \in LecturasDatos}
    /\ alertas \in [1..2 -> [tipo_alerta : {"riesgo_umbral"}, clima_id : 1..2]]
    /\ feedback \in UNION {[1..n -> [alerta_id : 1..3, feedback : Opiniones]] :
                             n \in 0..MaxFilas}
    /\ artefacto = [estado |-> "ausente", version |-> 0]
    /\ ciclo = [c \in {1} |-> CicloInactivo]
    /\ entrenador = EntrenadorInactivo
    /\ pronostico = PronosticoInactivo
    /\ pasos = [ciclos |-> 0, feedbacks |-> 0, reentrenos |-> 0]

NextDatos == ReentrenarCargar

SpecDatos == InitDatos /\ [][NextDatos]_vars

\* ------------------------------------------------------- the forecast job
\* The forecast job shares no state with the other two jobs: it opens the
\* store and never writes it, and it builds its Analizador with
\* predictor=None.  It is run on its own, over every forecast.
\*
\* get_forecast: one entry per day of the API's answer, with the day's rain
\* (daily_data.get('rain', 0): a number, or None when the API sends null).
SecuenciasDias ==
    UNION {[1..n -> [lluvia : ValoresONull]] : n \in 1..MaxDias}

\* A slip of line 83: the whole forecast scanned.
DiasRevisablesTodos(dias) == Len(dias)

\* Line 83: for dia in pronostico_diario[:2] -- how many entries the loop
\* visits.
DiasRevisables(dias) ==
    IF Len(dias) < HorizontePronostico THEN Len(dias) ELSE HorizontePronostico

\* Line 88: lluvia_prevista >= self.umbrales['limite_lluvia_mm'] raises
\* TypeError on a None rain and KeyError on a missing limit.
LluviaLanza(lluvia, limite) == lluvia = NULL \/ limite = NULL

\* Line 88
LluviaSignificativa(lluvia, limite) == lluvia >= limite

\* A slip of lines 81-99: the try inside the loop, each day on its own.
TrasExcepcionDiaAislada(i, n) == i + 1

\* Lines 98-99: the handler is outside the loop, so the entry to visit
\* after an exception at entry i of n is none: the scan is over.
TrasExcepcionDia(i, n) == n + 1

\* tarea_analisis_pronostico, lines 49-61: configuration, DBManager,
\* Notifier, ForecastColector, Analizador, get_forecast.  An exception of
\* the set-up is caught at line 63; get_forecast returns None when the API
\* fails and [] without 'daily', and analizar_pronostico is not called.
IniciarPronostico ==
    /\ pronostico.pc = "inactivo"
    /\ \E arranque \in {"excepcion", "sin_pronostico", "vacio", "pronostico"} :
         IF arranque = "excepcion"
         THEN pronostico' = [pronostico EXCEPT !.pc = "fin", !.capturas = {"tarea"}]
         ELSE IF arranque = "sin_pronostico"
         THEN pronostico' = [pronostico EXCEPT !.pc = "fin", !.capturas = {"colector"}]
         ELSE IF arranque = "vacio"
         THEN pronostico' = [pronostico EXCEPT !.pc = "fin"]
         ELSE \E dias \in SecuenciasDias, limite \in ValoresONull :
                pronostico' = [pronostico EXCEPT !.pc = "revisar", !.dias = dias,
                                                 !.limite = limite, !.i = 1]
    /\ UNCHANGED <<historico, alertas, feedback, artefacto, ciclo, entrenador, pasos>>

\* One pass of the loop of analizar_pronostico, lines 83-96, and the handler
\* of lines 98-99: look at entry i, request the advisory when its rain
\* reaches the limit (send_message returns False when requests raises).
RevisarDia ==
    /\ pronostico.pc = "revisar"
    /\ LET yo == pronostico
           n == DiasRevisables(yo.dias)
           lluvia == yo.dias[yo.i].lluvia
           sigue(j) == IF j <= n THEN "revisar" ELSE "fin"
       IN IF LluviaLanza(lluvia, yo.limite)
          THEN pronostico' =
                 [yo EXCEPT !.revisados = @ \cup {yo.i},
                            !.capturas = @ \cup {"analizar_pronostico"},
                            !.i = TrasExcepcionDia(yo.i, n),
                            !.pc = sigue(TrasExcepcionDia(yo.i, n))]
          ELSE IF LluviaSignificativa(lluvia, yo.limite)
          THEN \E ok \in BOOLEAN :
                 pronostico' =
                   [yo EXCEPT !.revisados = @ \cup {yo.i},
                              !.avisos = @ \cup {yo.i},
                              !.capturas = IF ok THEN @ ELSE @ \cup {"notifier"},
                              !.i = yo.i + 1, !.pc = sigue(yo.i + 1)]
          ELSE pronostico' =
                 [yo EXCEPT !.revisados = @ \cup {yo.i},
                            !.i = yo.i + 1, !.pc = sigue(yo.i + 1)]
    /\ UNCHANGED <<historico, alertas, feedback, artefacto, ciclo, entrenador, pasos>>

InitPronostico ==
    /\ historico = <<>>
    /\ alertas = <<>>
    /\ feedback = <<>>
    /\ artefacto \in {[estado |-> "ausente", version |-> 0],
                      [estado |-> "completo", version |-> 1]}
    /\ ciclo = [c \in {1} |-> CicloInactivo]
    /\ entrenador = EntrenadorInactivo
    /\ pronostico = PronosticoInactivo
    /\ pasos = [ciclos |-> 0, feedbacks |-> 0, reentrenos |-> 0]

NextPronostico ==
    \/ IniciarPronostico
    \/ RevisarDia

SpecPronostico == InitPronostico /\ [][NextPronostico]_vars

\* ---------------------------------------------------------------- claims
Completa(d) == d.temperatura # NULL /\ d.humedad # NULL /\ d.lluvia # NULL

UmbralesCompletos(u) ==
    /\ u.limite_temp_max # NULL
    /\ u.limite_temp_min # NULL
    /\ u.limite_humedad # NULL
    /\ u.limite_lluvia_mm # NULL

DentroDeLimites(d, u) ==
    /\ d.temperatura < u.limite_temp_max
    /\ d.temperatura > u.limite_temp_min
    /\ d.humedad < u.limite_humedad
    /\ d.lluvia < u.limite_lluvia_mm

\* analizar has been called in this cycle and has passed its evaluation.
Evaluado(c) ==
    /\ ciclo[c].pc \in {"insertar_clima", "insertar_alerta", "enviar", "fin"}
    /\ ciclo[c].capturas \cap {"ciclo", "colector"} = {}

\* C1: for a reading with its three values and a snapshot with its four
\* limits, the threshold path is taken exactly when temperature >= max or
\* temperature <= min or humidity >= limit or rain >= limit, every bound
\* inclusive.
C1_ReglaUmbral ==
    \A c \in DOMAIN ciclo :
        LET yo == ciclo[c]
            d == yo.datos
            u == yo.umbrales
        IN Evaluado(c) /\ Completa(d) /\ UmbralesCompletos(u) =>
             /\ "analizar" \notin yo.capturas
             /\ yo.riesgo_umbral <=>
                  \/ d.temperatura >= u.limite_temp_max
                  \/ d.temperatura <= u.limite_temp_min
                  \/ d.humedad >= u.limite_humedad
                  \/ d.lluvia >= u.limite_lluvia_mm

\* A reading whose temperature is exactly limite_temp_max, all else inside
\* the limits, has raised the threshold alert.
C1_Testigo ==
    \E c \in DOMAIN ciclo :
        LET yo == ciclo[c]
            d == yo.datos
            u == yo.umbrales
        IN /\ Evaluado(c) /\ Completa(d) /\ UmbralesCompletos(u)
           /\ d.temperatura = u.limite_temp_max
           /\ d.temperatura > u.limite_temp_min
           /\ d.humedad < u.limite_humedad
           /\ d.lluvia < u.limite_lluvia_mm
           /\ yo.riesgo_umbral /\ ~yo.riesgo_ia
           /\ yo.pc = "insertar_clima"

\* C2: with every value strictly inside its limits and no model loaded the
\* evaluation ends with no insert and no delivery; and an insert or a
\* delivery is attempted only in an evaluation where the threshold path or
\* the model path fired.
C2_SinAlerta ==
    \A c \in DOMAIN ciclo :
        LET yo == ciclo[c]
            d == yo.datos
            u == yo.umbrales
        IN Evaluado(c) =>
             /\ (yo.modelo = NULL /\ Completa(d) /\ UmbralesCompletos(u)
                   /\ DentroDeLimites(d, u)) =>
                  /\ yo.pc = "fin"
                  /\ yo.ins_clima = 0 /\ yo.ins_alerta = 0 /\ yo.envios = 0
                  /\ yo.clima_id = NULL /\ yo.alerta_id = NULL
                  /\ ~yo.reporto
             /\ (yo.pc # "fin" \/ yo.ins_clima > 0 \/ yo.ins_alerta > 0 \/ yo.envios > 0) =>
                  (yo.riesgo_umbral \/ yo.riesgo_ia)

C2_Testigo ==
    \E c \in DOMAIN ciclo :
        LET yo == ciclo[c]
        IN /\ Evaluado(c) /\ yo.modelo = NULL
           /\ Completa(yo.datos) /\ UmbralesCompletos(yo.umbrales)
           /\ DentroDeLimites(yo.datos, yo.umbrales)
           /\ yo.pc = "fin" /\ yo.ins_clima = 0

\* C3: the Alert insert is attempted only after the Reading insert returned
\* an id, and the Alert row references that id; delivery is requested only
\* after the Alert insert returned an id, and is tagged with that id.
C3_OrdenEfectos ==
    \A c \in DOMAIN ciclo :
        LET yo == ciclo[c]
        IN /\ yo.ins_alerta <= yo.ins_clima
           /\ yo.envios <= yo.ins_alerta
           /\ yo.ins_alerta > 0 => yo.clima_id # NULL
           /\ yo.envios > 0 => (yo.alerta_id # NULL /\ yo.etiqueta = yo.alerta_id)
           /\ yo.clima_id # NULL =>
                (yo.clima_id \in 1..Len(historico) /\ historico[yo.clima_id] = yo.datos)
           /\ yo.alerta_id # NULL =>
                /\ yo.alerta_id \in 1..Len(alertas)
                /\ alertas[yo.alerta_id].clima_id = yo.clima_id

C3_Testigo ==
    \E c \in DOMAIN ciclo :
        LET yo == ciclo[c]
        IN /\ yo.envios = 1 /\ yo.entregado
           /\ yo.etiqueta = yo.alerta_id
           /\ alertas[yo.alerta_id].clima_id = yo.clima_id
           /\ historico[yo.clima_id] = yo.datos

\* C4: without a model the model path never fires and predecir is not
\* called; with a model whose prediction came back, the model path fires
\* exactly when the probability >= umbral_ia_probabilidad, which is 0.75
\* when the configuration does not give it.
C4_RutaModelo ==
    \A c \in DOMAIN ciclo :
        LET yo == ciclo[c]
            umbral == IF yo.umbrales.umbral_ia_probabilidad = NULL THEN 75
                      ELSE yo.umbrales.umbral_ia_probabilidad
        IN Evaluado(c) /\ "analizar" \notin yo.capturas =>
             /\ yo.modelo = NULL => (~yo.riesgo_ia /\ "predecir" \notin yo.capturas)
             /\ "predecir" \in yo.capturas => ~yo.riesgo_ia
             /\ (yo.modelo # NULL /\ "predecir" \notin yo.capturas) =>
                  (yo.riesgo_ia <=> yo.prob >= umbral)

\* The probability equals the default threshold and only the model fired.
C4_Testigo ==
    \E c \in DOMAIN ciclo :
        LET yo == ciclo[c]
        IN /\ Evaluado(c) /\ yo.modelo # NULL
           /\ yo.umbrales.umbral_ia_probabilidad = NULL
           /\ yo.prob = 75
           /\ yo.riesgo_ia /\ ~yo.riesgo_umbral
           /\ yo.pc = "insertar_clima"

\* C5: the Alert row's kind is the model kind exactly when the model path
\* fired and the threshold path did not; else it is the threshold kind.
C5_TipoAlerta ==
    \A c \in DOMAIN ciclo :
        LET yo == ciclo[c]
        IN yo.alerta_id # NULL =>
             LET a == alertas[yo.alerta_id]
             IN /\ a.tipo_alerta \in {"riesgo_ia", "riesgo_umbral"}
                /\ a.tipo_alerta = "riesgo_ia" <=> (yo.riesgo_ia /\ ~yo.riesgo_umbral)
                /\ yo.riesgo_umbral => a.tipo_alerta = "riesgo_umbral"

\* Both paths fired and the row says threshold.
C5_Testigo ==
    \E c \in DOMAIN ciclo :
        LET yo == ciclo[c]
        IN /\ yo.alerta_id # NULL
           /\ yo.riesgo_ia /\ yo.riesgo_umbral
           /\ alertas[yo.alerta_id].tipo_alerta = "riesgo_umbral"

\* C6: every Alert row references a Reading row of the store and every
\* Feedback row references an Alert row of the store.
C6_Integridad ==
    /\ \A i \in 1..Len(alertas) : alertas[i].clima_id \in 1..Len(historico)
    /\ \A i \in 1..Len(feedback) : feedback[i].alerta_id \in 1..Len(alertas)

\* C7 as stated: an evaluation in which an exception was raised, in the
\* threshold evaluation, in inference, in persistence or in delivery, has
\* reported it through send_error.
C7_TodaExcepcionReportada ==
    \A c \in DOMAIN ciclo :
        LET yo == ciclo[c]
        IN (yo.pc = "fin"
              /\ yo.capturas \cap {"analizar", "predecir", "db", "notifier"} # {})
             => yo.reporto

\* C7 as amended: send_error is called exactly for the exceptions that reach
\* the handler of analizar, which a missing temperature or a missing
\* limite_temp_max always does; that evaluation ends with no insert and no
\* delivery.  What predecir, _execute_write_query and send_message catch is
\* not reported.
C7_ExcepcionEnAnalizar ==
    \A c \in DOMAIN ciclo :
        LET yo == ciclo[c]
        IN /\ yo.reporto <=> "analizar" \in yo.capturas
           /\ "analizar" \in yo.capturas =>
                /\ yo.pc = "fin"
                /\ yo.ins_clima = 0 /\ yo.ins_alerta = 0 /\ yo.envios = 0
           /\ (Evaluado(c) /\ (yo.datos.temperatura = NULL
                                 \/ yo.umbrales.limite_temp_max = NULL)) =>
                "analizar" \in yo.capturas

C7_Testigo ==
    \E c \in DOMAIN ciclo :
        LET yo == ciclo[c]
        IN /\ yo.pc = "fin" /\ "analizar" \in yo.capturas /\ yo.reporto
           /\ yo.datos.temperatura = NULL
           /\ UmbralesCompletos(yo.umbrales)

\* C8: an evaluation of a reading with a missing temperature, humidity or
\* rain persists no Reading and no Alert and requests no delivery.
C8_LecturaIncompleta ==
    \A c \in DOMAIN ciclo :
        LET yo == ciclo[c]
        IN (Evaluado(c) /\ ~Completa(yo.datos)) =>
             (yo.clima_id = NULL /\ yo.alerta_id = NULL /\ yo.envios = 0)

\* C9: the artifact file changes only in a retrain that loaded at least 20
\* valid rows; a retrain that loaded none, or fewer, leaves it as it was.
C9_SinReemplazo ==
    [][artefacto' # artefacto =>
         (~entrenador.nulo /\ Len(entrenador.X) >= 20)]_vars

\* A retrain stopped at the gate with 19 valid rows, the prior artifact in
\* place.
C9_Testigo ==
    /\ entrenador.pc = "fin"
    /\ ~entrenador.nulo
    /\ Len(entrenador.X) = 19
    /\ entrenador.capturas = {}
    /\ artefacto = [estado |-> "completo", version |-> 1]

\* The feedback rows that make a training row: opinion bien or mal, an alert
\* and a reading to join, and the reading's three features present.
FeedbackValido(i) ==
    LET f == feedback[i]
    IN /\ f.feedback \in {"bien", "mal"}
       /\ f.alerta_id \in 1..Len(alertas)
       /\ alertas[f.alerta_id].clima_id \in 1..Len(historico)
       /\ Completa(historico[alertas[f.alerta_id].clima_id])

IndicesValidos == {i \in 1..Len(feedback) : FeedbackValido(i)}

\* The k-th valid feedback row.
Kesimo(k) ==
    CHOOSE i \in IndicesValidos : Cardinality({j \in IndicesValidos : j <= i}) = k

\* C10: the training set has one row per valid feedback row and no other,
\* with the features of the reading it joins and class 1 for mal, 0 for bien.
C10_ConjuntoEntrenamiento ==
    (entrenador.pc # "inactivo" /\ "db" \notin entrenador.capturas) =>
        /\ Len(entrenador.X) = Cardinality(IndicesValidos)
        /\ Len(entrenador.y) = Len(entrenador.X)
        /\ \A k \in 1..Len(entrenador.X) :
             LET f == feedback[Kesimo(k)]
                 h == historico[alertas[f.alerta_id].clima_id]
             IN /\ entrenador.X[k] = <<h.temperatura, h.humedad, h.lluvia>>
                /\ f.feedback = "mal" => entrenador.y[k] = 1
                /\ f.feedback = "bien" => entrenador.y[k] = 0

\* A load that kept a mal row and dropped rows for a missing feature, for
\* another opinion and for an alert that does not exist.
C10_Testigo ==
    /\ entrenador.pc # "inactivo"
    /\ ~entrenador.nulo
    /\ \E k \in 1..Len(entrenador.y) : entrenador.y[k] = 1
    /\ Len(entrenador.X) < Len(feedback)
    /\ \E i \in 1..Len(feedback) : feedback[i].feedback = "otro"
    /\ \E i \in 1..Len(feedback) :
         /\ feedback[i].feedback \in {"bien", "mal"}
         /\ feedback[i].alerta_id \in 1..Len(alertas)
         /\ ~Completa(historico[alertas[feedback[i].alerta_id].clima_id])

\* C11: a retrain that had at least 20 valid rows, whose fit returned and
\* whose save raised nothing has written the artifact, whatever its
\* evaluation step did.
C11_EvaluacionNoCondiciona ==
    (/\ entrenador.pc = "fin"
     /\ Len(entrenador.X) >= 20
     /\ entrenador.ajustado
     /\ "entrenar_y_guardar" \notin entrenador.capturas)
        => entrenador.guardado

\* The positions of a cycle between the construction of its Predictor and
\* the end of analizar.
EnCurso == {"analizar", "insertar_clima", "insertar_alerta", "enviar"}

\* C12: while a cycle is in flight no step changes the model its Predictor
\* holds, and a step that changes the artifact file changes no cycle; an
\* evaluation whose Predictor holds no model does not call predecir and does
\* not fire the model path, whatever the file holds by then; a Predictor
\* that holds a model holds the complete file it loaded at construction.
C12_InstantaneaDelModelo ==
    [][\A c \in DOMAIN ciclo :
         /\ ciclo[c].pc \in EnCurso =>
               /\ ciclo'[c].modelo = ciclo[c].modelo
               /\ ciclo'[c].visto = ciclo[c].visto
         /\ artefacto' # artefacto => ciclo'[c] = ciclo[c]
         /\ (ciclo[c].pc = "analizar" /\ ciclo'[c].pc # "analizar"
                /\ ciclo[c].modelo = NULL) =>
               /\ ~ciclo'[c].riesgo_ia
               /\ "predecir" \notin ciclo'[c].capturas
         /\ ciclo'[c].modelo # NULL =>
               /\ ciclo'[c].visto.estado = "completo"
               /\ ciclo'[c].modelo = ciclo'[c].visto.version
               /\ ciclo'[c].visto.version <= artefacto'.version]_vars

\* A cycle about to evaluate with the model it loaded, after a retrain of
\* this run has written a newer file.
C12_Testigo ==
    \E c \in DOMAIN ciclo :
        /\ ciclo[c].pc = "analizar"
        /\ entrenador.guardado
        /\ artefacto.estado = "completo"
        /\ ciclo[c].visto.version < artefacto.version
        /\ ciclo[c].modelo = CargarModelo(ciclo[c].visto)

\* C13: no load finds the artifact file partially written; a load returns
\* the complete file that is there.
C13_ReemplazoAtomico ==
    \A c \in DOMAIN ciclo :
        LET v == ciclo[c].visto
        IN /\ v.estado # "parcial"
           /\ v.estado = "completo" => ciclo[c].modelo = v.version

\* C14: a load made after a retrain has written the artifact (the file's
\* version counts the writes that succeeded, those of earlier runs
\* included) returns the artifact of the latest successful write.
C14_NuevoArtefactoObservado ==
    \A c \in DOMAIN ciclo :
        LET v == ciclo[c].visto
        IN (v.estado # "sin_leer" /\ v.version >= 1) => ciclo[c].modelo = v.version

\* C15: while no artifact file exists, every cycle loads no model, and every
\* evaluation skips inference and decides by the thresholds alone: it
\* alerts exactly when the threshold path fired, and a complete reading is
\* neither abandoned nor reported through send_error.
C15_SinArtefacto ==
    artefacto.estado = "ausente" =>
        \A c \in DOMAIN ciclo :
            LET yo == ciclo[c]
                d == yo.datos
                u == yo.umbrales
            IN /\ yo.visto.estado \in {"sin_leer", "ausente"}
               /\ yo.modelo = NULL
               /\ Evaluado(c) =>
                    /\ ~yo.riesgo_ia /\ yo.prob = 0
                    /\ "predecir" \notin yo.capturas
                    /\ Completa(d) /\ UmbralesCompletos(u) =>
                         /\ "analizar" \notin yo.capturas
                         /\ ~yo.reporto
                         /\ yo.riesgo_umbral <=> ~DentroDeLimites(d, u)
                    /\ "analizar" \notin yo.capturas =>
                         ((yo.pc # "fin" \/ yo.ins_clima > 0) <=> yo.riesgo_umbral)

\* The second cycle of a run without artifact has delivered a threshold
\* alert.
C15_Testigo ==
    /\ artefacto.estado = "ausente"
    /\ pasos.ciclos = 2
    /\ \E c \in DOMAIN ciclo :
         LET yo == ciclo[c]
         IN /\ yo.pc = "fin" /\ yo.visto.estado = "ausente"
            /\ yo.riesgo_umbral /\ ~yo.riesgo_ia
            /\ yo.entregado
            /\ alertas[yo.alerta_id].tipo_alerta = "riesgo_umbral"

\* C16: an advisory is requested only for the first or the second entry of
\* the forecast and only when that entry's rain >= limite_lluvia_mm; a scan
\* that raised nothing has requested one for each such entry; the forecast
\* job inserts no Reading and no Alert and leaves the model alone.
C16_AvisoPronostico ==
    LET yo == pronostico
    IN /\ yo.avisos \subseteq ({1, 2} \cap DOMAIN yo.dias)
       /\ yo.revisados \subseteq ({1, 2} \cap DOMAIN yo.dias)
       /\ \A k \in yo.avisos :
            /\ yo.dias[k].lluvia # NULL /\ yo.limite # NULL
            /\ yo.dias[k].lluvia >= yo.limite
       /\ (yo.pc = "fin" /\ yo.dias # <<>>
             /\ "analizar_pronostico" \notin yo.capturas) =>
            \A k \in {1, 2} \cap DOMAIN yo.dias :
                yo.dias[k].lluvia >= yo.limite => k \in yo.avisos
       /\ historico = <<>> /\ alertas = <<>>
       /\ \A c \in DOMAIN ciclo : ciclo[c] = CicloInactivo

\* A finished scan of three rainy days has advised for the second and not
\* for the third; the first was below the limit.
C16_Testigo ==
    LET yo == pronostico
    IN /\ yo.pc = "fin" /\ Len(yo.dias) = 3
       /\ yo.limite # NULL /\ yo.limite > 0
       /\ yo.dias[1].lluvia # NULL /\ yo.dias[1].lluvia < yo.limite
       /\ yo.dias[2].lluvia = yo.limite
       /\ yo.dias[3].lluvia # NULL /\ yo.dias[3].lluvia >= yo.limite
       /\ yo.avisos = {2}
       /\ yo.capturas = {}

\* C17: predecir returns None for every reading when no classifier is
\* loaded, and None when the classifier raises; an evaluation that got None
\* (or had no model to ask) does not fire the model path, reports nothing
\* through send_error, and alerts exactly when the threshold path fired.
C17_PrediccionNoDisponible ==
    \A c \in DOMAIN ciclo :
        LET yo == ciclo[c]
            sin_prediccion == yo.modelo = NULL \/ "predecir" \in yo.capturas
        IN /\ Predecir(NULL, yo.datos) = {NULL}
           /\ "predecir" \in yo.capturas => yo.modelo # NULL
           /\ (Evaluado(c) /\ "analizar" \notin yo.capturas /\ sin_prediccion) =>
                /\ ~yo.riesgo_ia /\ yo.prob = 0
                /\ ~yo.reporto
                /\ (yo.pc # "fin" \/ yo.ins_clima > 0) <=> yo.riesgo_umbral
                /\ (Completa(yo.datos) /\ UmbralesCompletos(yo.umbrales)) =>
                     (yo.riesgo_umbral <=> ~DentroDeLimites(yo.datos, yo.umbrales))

\* The classifier raised, predecir returned None, and the evaluation went
\* on to alert by threshold.
C17_Testigo ==
    \E c \in DOMAIN ciclo :
        LET yo == ciclo[c]
        IN /\ yo.modelo # NULL /\ yo.capturas = {"predecir"}
           /\ Completa(yo.datos)
           /\ yo.riesgo_umbral /\ ~yo.riesgo_ia
           /\ yo.pc = "insertar_clima"

\* C18: a retrain in which the split, the fit, the evaluation or the save
\* raised has called send_error.
C18_ExcepcionEntrenamientoReportada ==
    (/\ entrenador.pc = "fin"
     /\ entrenador.capturas \cap {"tarea", "entrenar_y_guardar"} # {})
        => entrenador.reporto

\* C19 as stated: each insert and the delivery are attempted at most once
\* in a cycle, and a finished evaluation has persisted its Reading exactly
\* once when its decision was alert and not at all when it was no-alert.
C19_LecturaUnaVezPorAlerta ==
    \A c \in DOMAIN ciclo :
        LET yo == ciclo[c]
        IN /\ yo.ins_clima <= 1 /\ yo.ins_alerta <= 1 /\ yo.envios <= 1
           /\ (yo.pc = "fin" /\ Evaluado(c) /\ "analizar" \notin yo.capturas) =>
                IF yo.riesgo_umbral \/ yo.riesgo_ia
                THEN yo.clima_id # NULL
                ELSE yo.clima_id = NULL

\* C19 as amended: each insert and the delivery are attempted at most once
\* in a cycle; the store gains a Reading row only in the step in which a
\* cycle's Reading insert returns an id, so a cycle persists its Reading
\* once when its decision is alert and the insert succeeds, and never
\* otherwise; after a failed insert nothing more is attempted in the cycle;
\* and the next cycle starts from fresh locals whatever the last one caught.
C19_SinReintento ==
    [][/\ \A c \in DOMAIN ciclo :
            LET yo == ciclo'[c]
            IN /\ yo.ins_clima <= 1 /\ yo.ins_alerta <= 1 /\ yo.envios <= 1
               /\ (yo.pc = "fin" /\ yo.capturas \cap {"ciclo", "colector", "analizar"} = {}) =>
                    /\ (yo.riesgo_umbral \/ yo.riesgo_ia) <=> yo.ins_clima = 1
                    /\ yo.clima_id # NULL => yo.ins_clima = 1
                    /\ yo.clima_id = NULL => (yo.ins_alerta = 0 /\ yo.envios = 0)
                    /\ yo.alerta_id = NULL => yo.envios = 0
               /\ (ciclo[c].pc = "fin" /\ yo # ciclo[c]) =>
                    /\ yo.ins_clima = 0 /\ yo.ins_alerta = 0 /\ yo.envios = 0
                    /\ yo.clima_id = NULL /\ yo.alerta_id = NULL
                    /\ ~yo.reporto /\ ~yo.entregado
                    /\ yo.capturas \subseteq {"ciclo", "colector"}
                    /\ yo.capturas = {} => yo.pc = "analizar"
       /\ Len(historico') =
            Len(historico) +
              (IF \E c \in DOMAIN ciclo :
                     /\ ciclo[c].pc = "insertar_clima"
                     /\ ciclo'[c].clima_id # NULL
               THEN 1 ELSE 0)]_vars

\* The second cycle has inserted once, inserted its Alert once and
\* delivered once, after a cycle whose Alert insert failed and left its
\* Reading without Alert.
C19_Testigo ==
    /\ pasos.ciclos = 2
    /\ Len(historico) = Len(alertas) + 1
    /\ \E c \in DOMAIN ciclo :
         LET yo == ciclo[c]
         IN /\ yo.pc = "fin" /\ yo.entregado
            /\ yo.ins_clima = 1 /\ yo.ins_alerta = 1 /\ yo.envios = 1
            /\ yo.alerta_id = Len(alertas)

\* C20: a scan in which an entry raised is over at that entry: the entry
\* is the first one with a missing rain (or the first of all when the limit
\* is missing), no later entry has been looked at or advised for, the
\* advisories of the entries before it stay requested, and the exception
\* stays inside analizar_pronostico.
C20_ExcepcionTerminaRevision ==
    LET yo == pronostico
    IN "analizar_pronostico" \in yo.capturas =>
         /\ yo.pc = "fin"
         /\ "tarea" \notin yo.capturas
         /\ yo.revisados # {}
         /\ LET k == CHOOSE j \in yo.revisados : \A m \in yo.revisados : m <= j
            IN /\ yo.revisados = 1..k
               /\ yo.dias[k].lluvia = NULL \/ yo.limite = NULL
               /\ \A j \in 1..(k - 1) : yo.dias[j].lluvia # NULL
               /\ yo.avisos = {j \in 1..(k - 1) : yo.dias[j].lluvia >= yo.limite}

\* The first entry has no rain value and the second is at the limit: the
\* scan ended at the first and no advisory was requested.
C20_Testigo ==
    LET yo == pronostico
    IN /\ yo.capturas = {"analizar_pronostico"}
       /\ Len(yo.dias) >= 2
       /\ yo.dias[1].lluvia = NULL
       /\ yo.limite # NULL /\ yo.dias[2].lluvia = yo.limite
       /\ yo.revisados = {1}
       /\ yo.avisos = {}
       /\ yo.pc = "fin"

\* C21: the lifecycle of the model over successive main cycles has no
\* transition from loaded to absent: when a cycle whose Predictor held a
\* model is followed by a cycle that constructs its Predictor, that
\* Predictor holds a model too, whatever retrains ran in between.
C21_CicloDeVidaDelModelo ==
    [][\A c \in DOMAIN ciclo :
         (/\ pasos'.ciclos = pasos.ciclos + 1
          /\ ciclo[c].modelo # NULL
          /\ ciclo'[c].visto.estado # "sin_leer") =>
            ciclo'[c].modelo # NULL]_vars

\* The rows of historico_clima and alertas_emitidas are never removed nor
\* rewritten, and the rows a cycle inserted are in the store as inserted.
FilasPermanecen ==
    /\ Len(historico') >= Len(historico)
    /\ SubSeq(historico', 1, Len(historico)) = historico
    /\ Len(alertas') >= Len(alertas)
    /\ SubSeq(alertas', 1, Len(alertas)) = alertas
    /\ \A c \in DOMAIN ciclo :
         LET yo == ciclo'[c]
         IN /\ yo.clima_id # NULL =>
                 /\ yo.clima_id \in 1..Len(historico')
                 /\ historico'[yo.clima_id] = yo.datos
            /\ yo.alerta_id # NULL =>
                 /\ yo.alerta_id \in 1..Len(alertas')
                 /\ alertas'[yo.alerta_id].clima_id = yo.clima_id

\* The Reading of a cycle whose Alert insert failed has no Alert.
LecturaSinAlerta(c) ==
    LET yo == ciclo[c]
    IN (yo.clima_id # NULL /\ yo.ins_alerta = 1 /\ yo.alerta_id = NULL) =>
          /\ yo.envios = 0
          /\ \A i \in 1..Len(alertas) : alertas[i].clima_id # yo.clima_id

\* The Alert of a cycle whose delivery failed has no Feedback.
AlertaSinEntregaSinFeedback(c) ==
    LET yo == ciclo[c]
    IN (yo.alerta_id # NULL /\ yo.envios = 1 /\ ~yo.entregado) =>
          \A i \in 1..Len(feedback) : feedback[i].alerta_id # yo.alerta_id

\* C22: analizar has no rollback: the Reading stays persisted when the
\* Alert insert fails, and the Reading and the Alert stay persisted when
\* the delivery fails; the one is a Reading without an Alert, the other an
\* Alert that was not delivered and never receives Feedback.
C22_SinReversion ==
    [][/\ FilasPermanecen
       /\ \A c \in DOMAIN ciclo :
            /\ LecturaSinAlerta(c)'
            /\ AlertaSinEntregaSinFeedback(c)']_vars

\* The alerts that have at least one valid feedback row.
AlertasEtiquetadas == {feedback[i].alerta_id : i \in IndicesValidos}

\* C23: feedback is not deduplicated per alert: a callback that writes adds
\* one row and keeps every earlier row, the row of the same alert included;
\* the trainer makes one training row per valid feedback row, and the
\* retrain passes the gate exactly when the valid feedback rows, not the
\* labeled alerts, number at least 20.
C23_FeedbackSinDeduplicar ==
    [][/\ (pasos'.feedbacks = pasos.feedbacks + 1 /\ feedback' # feedback) =>
             /\ Len(feedback') = Len(feedback) + 1
             /\ SubSeq(feedback', 1, Len(feedback)) = feedback
       /\ (pasos'.reentrenos = pasos.reentrenos + 1
              /\ "db" \notin entrenador'.capturas) =>
             /\ Len(entrenador'.X) = Cardinality(IndicesValidos)
             /\ Len(entrenador'.y) = Cardinality(IndicesValidos)
             /\ entrenador'.pc = "ajustar" <=>
                    Cardinality(IndicesValidos) >= MinimoDatos]_vars

\* A retrain past the gate with 20 training rows from fewer than 20 labeled
\* alerts: one alert was answered twice, once bien and once mal, the second
\* answer by a callback of this run.
C23_Testigo ==
    /\ entrenador.pc = "ajustar"
    /\ pasos.feedbacks > 0
    /\ Len(entrenador.X) = MinimoDatos
    /\ Cardinality(AlertasEtiquetadas) < MinimoDatos
    /\ \E i, j \in IndicesValidos :
         /\ i < j
         /\ feedback[i].alerta_id = feedback[j].alerta_id
         /\ feedback[i].feedback # feedback[j].feedback

=============================================================================
